---- MODULE Spec2Model ----
(***************************************************************************)
(* A model of the go-4devs/workflow engine (workflow.go): the transition   *)
(* registry (NewWorkflow, Add, Get, Can), the guard (Transition.Can), the  *)
(* middleware composer (chainProcess) and Apply.                           *)
(*                                                                         *)
(* Function values are modelled by what they are built from: a middleware  *)
(* value is either a caller-supplied function (identified by where the     *)
(* caller passed it), the closure chainProcess returns for n > 1 (it holds *)
(* the handleFunc slice), or the pass-through chainProcess returns for     *)
(* n = 0.  A call is a frame on the calling thread's stack; one action     *)
(* runs a function body up to its next call or to its return.              *)
(***************************************************************************)
EXTENDS Integers, Sequences, FiniteSets, TLC

VARIABLES
    transitions,  \* Workflow.transitions: transit name -> *Transition (0: no entry)
    heap,         \* the Transition objects the pointers refer to
    mw,           \* Workflow.mw: the composed global middleware
    mu,           \* Workflow.mu: 0 when unlocked, else the thread holding it
    stack,        \* per thread: the call stack, innermost call last
    ret,          \* per thread: the values returned by the call that ended last
    trace,        \* per thread: what the current public call has invoked so far
    op            \* per thread: the public call in progress or last finished

vars == <<transitions, heap, mw, mu, stack, ret, trace, op>>

---------------------------------------------------------------------------
(* Bounds *)

MaxGlobal == 2   \* most middleware passed to NewWorkflow
MaxExtra == 2    \* most extra middleware passed to one Add

---------------------------------------------------------------------------
(* Values *)

Threads == {1, 2}
Names == {"a", "b"}              \* transit names (fmt.Stringer keys)
States == {"new", "done"}        \* states (fmt.Stringer values)
NoState == "nil"                 \* the nil fmt.Stringer: no state set
StateVals == States \cup {NoState}

ObjIds == 1..(Cardinality(Names) + Cardinality(Threads))
NoObj == 0                       \* the nil *Transition

\* A caller-supplied middleware function is named by where it was passed:
\* o = 0 for NewWorkflow, else the Transition object of the Add call;
\* n = the transit name of the Add call ("own" for Transition.Middleware);
\* j = its position among the variadic arguments.
NoId == [o |-> 0, n |-> "", j |-> 0]
GlobalId(j) == [o |-> 0, n |-> "global", j |-> j]
OwnId(o) == [o |-> o, n |-> "own", j |-> 0]
ExtraId(o, name, j) == [o |-> o, n |-> name, j |-> j]

\* type Data interface { GetState() fmt.Stringer }; testData{state}
NilData == [nil |-> TRUE, state |-> NoState]
MkData(s) == [nil |-> FALSE, state |-> s]
DataVals == {MkData(s) : s \in StateVals}
GetState(data) == data.state

NoErr == [e |-> "nil", id |-> NoId]
ErrTransitNotAllowed == [e |-> "transit not allowed", id |-> NoId]
ErrDuplicateTransit == [e |-> "duplicate transit", id |-> NoId]
\* errors made by caller-supplied functions
ErrMw(id) == [e |-> "middleware error", id |-> id]
ErrApply == [e |-> "apply error", id |-> NoId]

\* Middleware values
NilMw == [k |-> "nil", id |-> NoId, hs |-> <<>>]
Base(id) == [k |-> "base", id |-> id, hs |-> <<>>]

\* Process values (continuations): the two closures of Apply and chainHandler
NoProc == [k |-> "none", name |-> "", tr |-> NoObj, act |-> 0]
LookupProc(transit) == [k |-> "lookup", name |-> transit, tr |-> NoObj, act |-> 0]
ApplyProc(tr) == [k |-> "applyc", name |-> "", tr |-> tr, act |-> 0]
HandlerProc(act) == [k |-> "handler", name |-> "", tr |-> NoObj, act |-> act]

\* type Transition struct { Src; Dst; Middleware }
NoTransition == [live |-> FALSE, Src |-> <<>>, Dst |-> NoState, Middleware |-> NilMw]
MkTransition(src, dst, m) == [live |-> TRUE, Src |-> src, Dst |-> dst, Middleware |-> m]

\* The (Src, Dst) of the Transition literals a caller registers, as in the tests
Guarded == << <<"new">>, "done" >>
Edges == { << <<>>, "new" >>, Guarded, << <<"new", "done">>, "new" >> }

\* The arguments of an Add call with a new Transition: <<(Src, Dst), whether
\* Middleware is set, the number of extra middleware>>.  Every edge is added
\* bare; the guarded edge is also added with every shape of chain.
AddArgs ==
    {<<e, FALSE, 0>> : e \in Edges}
      \cup {<<Guarded, own, n>> : own \in BOOLEAN, n \in 0..MaxExtra}

NoRet == [data |-> NilData, err |-> NoErr, ok |-> FALSE, tr |-> NoObj]
NoOp == [f |-> "none", name |-> "", data |-> NilData, tr |-> NoObj, n |-> 0,
         done |-> TRUE]

Event(e, id, a, st) == [e |-> e, id |-> id, a |-> a, st |-> st]

BlankFrame ==
    [k |-> "", pc |-> "start", id |-> NoId, hs |-> <<>>, curI |-> 0, lastI |-> 0,
     data |-> NilData, next |-> NoProc, name |-> "", tr |-> NoObj, act |-> 0]

---------------------------------------------------------------------------
(* Pure functions of the source *)

\* a variant of the loop that compares with the first element only
CanFromFirstOnly(src, i, data) == GetState(data) = src[i]

\* func (tr *Transition) Can(data Data) bool: the loop over tr.Src from index i
RECURSIVE CanFrom(_, _, _)
CanFrom(src, i, data) ==
    IF i > Len(src) THEN FALSE
    ELSE IF GetState(data) = src[i] THEN TRUE
    ELSE CanFrom(src, i + 1, data)

TransitionCan(src, data) ==
    IF Len(src) = 0 THEN TRUE ELSE CanFrom(src, 1, data)

\* a variant of Get that does not ask the guard
GetInNoGuard(m, h, data, transit) == m[transit]

\* func (w *Workflow) Get(data, transit) *Transition, on a registry m and heap h
GetIn(m, h, data, transit) ==
    LET tr == m[transit]
    IN IF tr = NoObj \/ ~TransitionCan(h[tr].Src, data) THEN NoObj ELSE tr

Get(data, transit) == GetIn(transitions, heap, data, transit)

\* a variant of Can that only looks the name up
CanRegistered(data, transit) == transitions[transit] # NoObj

\* func (w *Workflow) Can(data, transit) bool
Can(data, transit) == Get(data, transit) # NoObj

\* a variant of lastI that is one short
LastIndexShort(handleFunc) == Len(handleFunc) - 2

\* lastI := n - 1, as an index into the 0-based handleFunc
LastIndex(handleFunc) == Len(handleFunc) - 1

\* handleFunc[0], the middleware the composed closure calls
FirstHandler(handleFunc) == handleFunc[1]

\* a variant of chainProcess that composes the middleware in reverse
chainProcessReversed(handleFunc) ==
    LET n == Len(handleFunc)
    IN IF n > 1 THEN [k |-> "chain", id |-> NoId,
                      hs |-> [i \in 1..n |-> handleFunc[n + 1 - i]]]
       ELSE IF n = 1 THEN handleFunc[1]
       ELSE [k |-> "identity", id |-> NoId, hs |-> <<>>]

\* a variant without the pass-through of the empty list: it returns nil
chainProcessNilEmpty(handleFunc) ==
    LET n == Len(handleFunc)
    IN IF n > 1 THEN [k |-> "chain", id |-> NoId, hs |-> handleFunc]
       ELSE IF n = 1 THEN handleFunc[1]
       ELSE NilMw

\* func chainProcess(handleFunc ...Middleware) Middleware
chainProcess(handleFunc) ==
    LET n == Len(handleFunc)
    IN IF n > 1 THEN [k |-> "chain", id |-> NoId, hs |-> handleFunc]
       ELSE IF n = 1 THEN handleFunc[1]
       ELSE [k |-> "identity", id |-> NoId, hs |-> <<>>]

\* a variant of the check that never finds the name
IsDuplicateNever(m, name) == FALSE

\* _, ok := w.transitions[name], on a registry m
IsDuplicate(m, name) == m[name] # NoObj

\* a variant of the store that makes a new map holding the one entry
StoreEntryOnly(m, name, tr) == [n \in DOMAIN m |-> IF n = name THEN tr ELSE NoObj]

\* w.transitions[name] = transit, on a registry m
StoreEntry(m, name, tr) == [m EXCEPT ![name] = tr]

\* the slice Add builds: mw = append(mw, transit.Middleware) when it is not nil
AddChain(extra, own) ==
    IF own # NilMw THEN Append(extra, own) ELSE extra

---------------------------------------------------------------------------
(* Calls *)

Depth(t) == Len(stack[t])
Top(t) == stack[t][Depth(t)]
Idle(t) == stack[t] = <<>>

Pop(t) == SubSeq(stack[t], 1, Depth(t) - 1)
\* the stack with its top frame replaced by f and g pushed on it
Calling(t, f, g) == Append(Append(Pop(t), f), g)

\* the frame of a call m(ctx, data, next) of a Middleware value
Invoke(m, data, next) ==
    IF m.k = "base"
    THEN [BlankFrame EXCEPT !.k = "mw", !.id = m.id, !.data = data, !.next = next]
    ELSE IF m.k = "chain"
    THEN [BlankFrame EXCEPT !.k = "chain", !.hs = m.hs, !.lastI = LastIndex(m.hs),
                            !.data = data, !.next = next]
    ELSE [BlankFrame EXCEPT !.k = m.k, !.data = data, !.next = next]

\* the frame of a call p(ctx, data) of a Process value
CallProc(p, data) ==
    [BlankFrame EXCEPT !.k = p.k, !.name = p.name, !.tr = p.tr, !.act = p.act,
                       !.data = data]

Log(t, ev) == trace' = [trace EXCEPT ![t] = Append(@, ev)]

---------------------------------------------------------------------------
(* State after NewWorkflow(apply, mw...) *)

GlobalList(n) == [j \in 1..n |-> Base(GlobalId(j))]

Init ==
    /\ transitions = [n \in Names |-> NoObj]
    /\ heap = [o \in ObjIds |-> NoTransition]
    /\ \E n \in 0..MaxGlobal : mw = chainProcess(GlobalList(n))
    /\ mu = 0
    /\ stack = [t \in Threads |-> <<>>]
    /\ ret = [t \in Threads |-> NoRet]
    /\ trace = [t \in Threads |-> <<>>]
    /\ op = [t \in Threads |-> NoOp]

---------------------------------------------------------------------------
(* Public calls that read the registry *)

\* tr.Can(data) on a Transition object o the caller holds
CallTransitionCan(t, o, data) ==
    /\ Idle(t)
    /\ heap[o].live
    /\ op' = [op EXCEPT ![t] = [NoOp EXCEPT !.f = "TransitionCan", !.tr = o,
                                            !.data = data]]
    /\ ret' = [ret EXCEPT ![t] = [NoRet EXCEPT !.ok = TransitionCan(heap[o].Src, data)]]
    /\ trace' = [trace EXCEPT ![t] = <<>>]
    /\ UNCHANGED <<transitions, heap, mw, mu, stack>>

\* a variant of Get that waits while a thread holds the mutex
GetWaitsLocked(m) == m # 0

\* Get takes no lock: it never waits, whoever holds the mutex
GetWaits(m) == FALSE

\* w.Get(data, transit)
CallGet(t, data, transit) ==
    /\ Idle(t)
    /\ ~GetWaits(mu)
    /\ op' = [op EXCEPT ![t] = [NoOp EXCEPT !.f = "Get", !.name = transit,
                                            !.data = data]]
    /\ ret' = [ret EXCEPT ![t] = [NoRet EXCEPT !.tr = Get(data, transit)]]
    /\ trace' = [trace EXCEPT ![t] = <<>>]
    /\ UNCHANGED <<transitions, heap, mw, mu, stack>>

\* w.Can(data, transit)
CallCan(t, data, transit) ==
    /\ Idle(t)
    /\ ~GetWaits(mu)
    /\ op' = [op EXCEPT ![t] = [NoOp EXCEPT !.f = "Can", !.name = transit,
                                            !.data = data]]
    /\ ret' = [ret EXCEPT ![t] = [NoRet EXCEPT !.ok = Can(data, transit)]]
    /\ trace' = [trace EXCEPT ![t] = <<>>]
    /\ UNCHANGED <<transitions, heap, mw, mu, stack>>

---------------------------------------------------------------------------
(* Add *)

ExtraList(o, name, n) == [j \in 1..n |-> Base(ExtraId(o, name, j))]

Registered(o) == \E n \in Names : transitions[n] = o
FreeObjs == {o \in ObjIds : ~heap[o].live}
\* the address of a new Transition: any free one (the model takes the slot of
\* the name when it is free, else the lowest)
NameSlot(name) == IF name = "a" THEN 1 ELSE 2
FreshObj(name) ==
    IF NameSlot(name) \in FreeObjs THEN NameSlot(name)
    ELSE CHOOSE o \in FreeObjs : \A p \in FreeObjs : o <= p

AddFrame(name, o, n) ==
    [BlankFrame EXCEPT !.k = "Add", !.pc = "lock", !.name = name, !.tr = o,
                       !.hs = ExtraList(o, name, n)]

\* w.Add(name, &Transition{Src, Dst, Middleware}, mw...) with n extra middleware;
\* own tells whether the literal sets Middleware
CallAddNew(t, name, edge, own, n) ==
    /\ Idle(t)
    /\ FreeObjs # {}
    /\ LET o == FreshObj(name)
       IN /\ heap' = [heap EXCEPT ![o] =
                        MkTransition(edge[1], edge[2],
                                     IF own THEN Base(OwnId(o)) ELSE NilMw)]
          /\ stack' = [stack EXCEPT ![t] = <<AddFrame(name, o, n)>>]
          /\ op' = [op EXCEPT ![t] = [NoOp EXCEPT !.f = "Add", !.name = name,
                                                  !.tr = o, !.n = n,
                                                  !.done = FALSE]]
    /\ ret' = [ret EXCEPT ![t] = NoRet]
    /\ trace' = [trace EXCEPT ![t] = <<>>]
    /\ UNCHANGED <<transitions, mw, mu>>

\* w.Add(name, tr, mw...) with a Transition object o that is already registered
CallAddAgain(t, name, o, n) ==
    /\ Idle(t)
    /\ Registered(o)
    /\ stack' = [stack EXCEPT ![t] = <<AddFrame(name, o, n)>>]
    /\ op' = [op EXCEPT ![t] = [NoOp EXCEPT !.f = "Add", !.name = name, !.tr = o,
                                            !.n = n, !.done = FALSE]]
    /\ ret' = [ret EXCEPT ![t] = NoRet]
    /\ trace' = [trace EXCEPT ![t] = <<>>]
    /\ UNCHANGED <<transitions, heap, mw, mu>>

\* a variant of the mutex that never makes a caller wait
UnlockedAlways(m) == TRUE

\* Lock returns when no thread holds the mutex
Unlocked(m) == m = 0

\* w.mu.Lock()
AddLock(t) ==
    /\ ~Idle(t)
    /\ Top(t).k = "Add" /\ Top(t).pc = "lock"
    /\ Unlocked(mu)
    /\ mu' = t
    /\ stack' = [stack EXCEPT ![t] = <<[Top(t) EXCEPT !.pc = "store"]>>]
    /\ UNCHANGED <<transitions, heap, mw, ret, trace, op>>

\* the duplicate check, the composition of the chain and the store
AddStore(t) ==
    /\ ~Idle(t)
    /\ Top(t).k = "Add" /\ Top(t).pc = "store"
    /\ LET f == Top(t)
       IN IF IsDuplicate(transitions, f.name)
          THEN /\ ret' = [ret EXCEPT ![t] = [NoRet EXCEPT !.err = ErrDuplicateTransit]]
               /\ UNCHANGED <<transitions, heap>>
          ELSE /\ heap' = [heap EXCEPT ![f.tr].Middleware =
                             chainProcess(AddChain(f.hs, heap[f.tr].Middleware))]
               /\ transitions' = StoreEntry(transitions, f.name, f.tr)
               /\ ret' = [ret EXCEPT ![t] = [NoRet EXCEPT !.err = NoErr]]
    /\ stack' = [stack EXCEPT ![t] = <<[Top(t) EXCEPT !.pc = "unlock"]>>]
    /\ UNCHANGED <<mw, mu, trace, op>>

\* the deferred w.mu.Unlock() and the return; a Transition no registry entry
\* refers to is dropped by the caller
AddReturn(t) ==
    /\ ~Idle(t)
    /\ Top(t).k = "Add" /\ Top(t).pc = "unlock"
    /\ mu' = 0
    /\ stack' = [stack EXCEPT ![t] = <<>>]
    /\ op' = [op EXCEPT ![t].done = TRUE]
    /\ heap' = IF Registered(Top(t).tr) THEN heap
               ELSE [heap EXCEPT ![Top(t).tr] = NoTransition]
    /\ UNCHANGED <<transitions, mw, ret, trace>>

---------------------------------------------------------------------------
(* Apply *)

\* w.Apply(ctx, data, transit): the call w.mw(ctx, data, func...) of line 100
CallApply(t, data, transit) ==
    /\ Idle(t)
    /\ stack' = [stack EXCEPT ![t] =
                   <<[BlankFrame EXCEPT !.k = "Apply", !.pc = "wait",
                                        !.name = transit, !.data = data],
                     Invoke(mw, data, LookupProc(transit))>>]
    /\ op' = [op EXCEPT ![t] = [NoOp EXCEPT !.f = "Apply", !.name = transit,
                                            !.data = data, !.done = FALSE]]
    /\ ret' = [ret EXCEPT ![t] = NoRet]
    /\ trace' = [trace EXCEPT ![t] = <<>>]
    /\ UNCHANGED <<transitions, heap, mw, mu>>

\* Apply returns what w.mw returned
ApplyReturn(t) ==
    /\ ~Idle(t)
    /\ Top(t).k = "Apply" /\ Top(t).pc = "wait"
    /\ stack' = [stack EXCEPT ![t] = <<>>]
    /\ op' = [op EXCEPT ![t].done = TRUE]
    /\ UNCHANGED <<transitions, heap, mw, mu, ret, trace>>

\* a variant of the failure that hands the data back with the error
LookupFailureWithData(data) == [NoRet EXCEPT !.data = data, !.err = ErrTransitNotAllowed]

\* return nil, ErrTransitNotAllowed
LookupFailure(data) == [NoRet EXCEPT !.data = NilData, !.err = ErrTransitNotAllowed]

\* the closure Apply passes to w.mw: the lookup, then either the call of
\* tr.Middleware or the return of (nil, ErrTransitNotAllowed)
LookupStart(t) ==
    /\ ~Idle(t)
    /\ Top(t).k = "lookup" /\ Top(t).pc = "start"
    /\ ~GetWaits(mu)
    /\ LET f == Top(t)
           tr == Get(f.data, f.name)
       IN IF tr # NoObj
          THEN /\ stack' = [stack EXCEPT ![t] =
                              Calling(t, [f EXCEPT !.pc = "wait", !.tr = tr],
                                      Invoke(heap[tr].Middleware, f.data, ApplyProc(tr)))]
               /\ Log(t, Event("get", NoId, f.name, GetState(f.data)))
               /\ UNCHANGED ret
          ELSE /\ stack' = [stack EXCEPT ![t] = Pop(t)]
               /\ Log(t, Event("deny", NoId, f.name, GetState(f.data)))
               /\ ret' = [ret EXCEPT ![t] = LookupFailure(f.data)]
    /\ UNCHANGED <<transitions, heap, mw, mu, op>>

\* the closure returns what tr.Middleware returned
LookupReturn(t) ==
    /\ ~Idle(t)
    /\ Top(t).k = "lookup" /\ Top(t).pc = "wait"
    /\ stack' = [stack EXCEPT ![t] = Pop(t)]
    /\ UNCHANGED <<transitions, heap, mw, mu, ret, trace, op>>

\* a variant that passes no destination
DstUnset(h, tr) == NoState

\* tr.Dst, the destination handed to the apply function
DstOf(h, tr) == h[tr].Dst

\* the closure Apply passes to tr.Middleware: w.apply(ctx, data, tr.Dst).
\* The apply function is the caller's: it returns the entity with the state
\* set to dst (ok), or fails with an error of its own.
ApplyFunc(t, ok) ==
    /\ ~Idle(t)
    /\ Top(t).k = "applyc"
    /\ LET f == Top(t)
           dst == DstOf(heap, f.tr)
       IN /\ trace' = [trace EXCEPT ![t] =
                        IF ok THEN Append(@, Event("apply", NoId, dst, GetState(f.data)))
                        ELSE Append(Append(@, Event("apply", NoId, dst, GetState(f.data))),
                                    Event("applyerr", NoId, dst, GetState(f.data)))]
          /\ ret' = [ret EXCEPT ![t] =
                       IF ok THEN [NoRet EXCEPT !.data = MkData(dst), !.err = NoErr]
                       ELSE [NoRet EXCEPT !.data = NilData, !.err = ErrApply]]
    /\ stack' = [stack EXCEPT ![t] = Pop(t)]
    /\ UNCHANGED <<transitions, heap, mw, mu, op>>

---------------------------------------------------------------------------
(* Middleware *)

\* What a caller-supplied middleware does, chosen at each call:
\*   "pass": calls next(ctx, data) once and returns its result (the tests' Success)
\*   "fail": returns (nil, its own error) without calling next
Kinds == {"pass", "fail"}

MwStart(t, kind) ==
    /\ ~Idle(t)
    /\ Top(t).k = "mw" /\ Top(t).pc = "start"
    /\ LET f == Top(t)
       IN IF kind = "pass"
          THEN /\ stack' = [stack EXCEPT ![t] =
                              Calling(t, [f EXCEPT !.pc = "wait"],
                                      CallProc(f.next, f.data))]
               /\ Log(t, Event("enter", f.id, "", GetState(f.data)))
               /\ UNCHANGED ret
          ELSE /\ stack' = [stack EXCEPT ![t] = Pop(t)]
               /\ trace' = [trace EXCEPT ![t] =
                              Append(Append(@, Event("enter", f.id, "", GetState(f.data))),
                                     Event("abort", f.id, "", GetState(f.data)))]
               /\ ret' = [ret EXCEPT ![t] =
                            [NoRet EXCEPT !.data = NilData, !.err = ErrMw(f.id)]]
    /\ UNCHANGED <<transitions, heap, mw, mu, op>>

\* a "pass" middleware returns what next returned
MwReturn(t) ==
    /\ ~Idle(t)
    /\ Top(t).k = "mw" /\ Top(t).pc = "wait"
    /\ stack' = [stack EXCEPT ![t] = Pop(t)]
    /\ Log(t, Event("leave", Top(t).id, "", GetState(Top(t).data)))
    /\ UNCHANGED <<transitions, heap, mw, mu, ret, op>>

\* the entity a "set" middleware hands on: the one it got, in another state
Other(data) == MkData(IF GetState(data) = "new" THEN "done" ELSE "new")

\* a "set" middleware: calls next(ctx, Other(data)) once and returns its result
MwStartSet(t) ==
    /\ ~Idle(t)
    /\ Top(t).k = "mw" /\ Top(t).pc = "start"
    /\ LET f == Top(t)
       IN /\ stack' = [stack EXCEPT ![t] =
                         Calling(t, [f EXCEPT !.pc = "wait"],
                                 CallProc(f.next, Other(f.data)))]
          /\ trace' = [trace EXCEPT ![t] =
                         Append(Append(@, Event("enter", f.id, "", GetState(f.data))),
                                Event("set", f.id, "", GetState(Other(f.data))))]
    /\ UNCHANGED <<transitions, heap, mw, mu, ret, op>>

\* the second calls of next that one public call may make
MaxAgain == 2

\* the second calls of next made or pending in t's public call
Agains(t) ==
    Cardinality({i \in DOMAIN trace[t] : trace[t][i].e = "again"})
      + Cardinality({i \in DOMAIN stack[t] : stack[t][i].pc = "again"})

\* a "twice" middleware: calls next(ctx, data), drops what it returned, calls
\* next(ctx, data) again and returns the result of the second call
MwStartTwice(t) ==
    /\ ~Idle(t)
    /\ Top(t).k = "mw" /\ Top(t).pc = "start"
    /\ Agains(t) < MaxAgain
    /\ LET f == Top(t)
       IN /\ stack' = [stack EXCEPT ![t] =
                         Calling(t, [f EXCEPT !.pc = "again"],
                                 CallProc(f.next, f.data))]
          /\ Log(t, Event("enter", f.id, "", GetState(f.data)))
    /\ UNCHANGED <<transitions, heap, mw, mu, ret, op>>

MwAgain(t) ==
    /\ ~Idle(t)
    /\ Top(t).k = "mw" /\ Top(t).pc = "again"
    /\ LET f == Top(t)
       IN /\ stack' = [stack EXCEPT ![t] =
                         Calling(t, [f EXCEPT !.pc = "wait"],
                                 CallProc(f.next, f.data))]
          /\ Log(t, Event("again", f.id, "", GetState(f.data)))
    /\ UNCHANGED <<transitions, heap, mw, mu, ret, op>>

\* chainProcess, n = 0: func(ctx, data, next) { return next(ctx, data) }
IdentityStart(t) ==
    /\ ~Idle(t)
    /\ Top(t).k = "identity" /\ Top(t).pc = "start"
    /\ stack' = [stack EXCEPT ![t] =
                   Calling(t, [Top(t) EXCEPT !.pc = "wait"],
                           CallProc(Top(t).next, Top(t).data))]
    /\ UNCHANGED <<transitions, heap, mw, mu, ret, trace, op>>

IdentityReturn(t) ==
    /\ ~Idle(t)
    /\ Top(t).k = "identity" /\ Top(t).pc = "wait"
    /\ stack' = [stack EXCEPT ![t] = Pop(t)]
    /\ UNCHANGED <<transitions, heap, mw, mu, ret, trace, op>>

\* chainProcess, n > 1, the returned closure: curI starts at 0 and the body is
\* return handleFunc[0](ctx, data, chainHandler)
ChainStart(t) ==
    /\ ~Idle(t)
    /\ Top(t).k = "chain" /\ Top(t).pc = "start"
    /\ LET f == Top(t)
       IN stack' = [stack EXCEPT ![t] =
                      Calling(t, [f EXCEPT !.pc = "wait", !.curI = 0],
                              Invoke(FirstHandler(f.hs), f.data, HandlerProc(Depth(t))))]
    /\ UNCHANGED <<transitions, heap, mw, mu, ret, trace, op>>

\* a variant that wraps a non-nil error
ChainResultWrapped(r) ==
    IF r.err = NoErr THEN r ELSE [r EXCEPT !.err = [e |-> "wrapped", id |-> r.err.id]]

\* the composed closure returns what handleFunc[0] returned
ChainResult(r) == r

ChainReturn(t) ==
    /\ ~Idle(t)
    /\ Top(t).k = "chain" /\ Top(t).pc = "wait"
    /\ stack' = [stack EXCEPT ![t] = Pop(t)]
    /\ ret' = [ret EXCEPT ![t] = ChainResult(@)]
    /\ UNCHANGED <<transitions, heap, mw, mu, trace, op>>

\* the data chainHandler hands to next when curI = lastI: the data parameter of
\* the enclosing closure (c.data), not currentData (f.data)
TerminalData(c, f) == c.data

\* a variant that leaves the cursor where it is
AdvanceNot(curI) == curI

\* curI++
Advance(curI) == curI + 1

\* chainHandler(currentCtx, currentData), in the activation c = stack[act] of
\* the closure that made it
HandlerStart(t) ==
    /\ ~Idle(t)
    /\ Top(t).k = "handler" /\ Top(t).pc = "start"
    /\ LET f == Top(t)
           c == stack[t][f.act]
       IN IF c.curI = c.lastI
          THEN stack' = [stack EXCEPT ![t] =
                           Calling(t, [f EXCEPT !.pc = "wait_next"],
                                   CallProc(c.next, TerminalData(c, f)))]
          ELSE stack' = [stack EXCEPT ![t] =
                           Append([stack[t] EXCEPT ![f.act].curI = Advance(c.curI),
                                                   ![Depth(t)].pc = "wait_mw"],
                                  Invoke(c.hs[Advance(c.curI) + 1], f.data,
                                         HandlerProc(f.act)))]
    /\ UNCHANGED <<transitions, heap, mw, mu, ret, trace, op>>

\* a variant that leaves the cursor where the inner call put it
RestoreNot(curI) == curI

\* curI--
Restore(curI) == curI - 1

\* a variant that drops the error
HandlerResultNoErr(r) == [r EXCEPT !.err = NoErr]

\* data, err := handleFunc[curI](...); return data, err
HandlerResult(r) == r

\* chainHandler returns: after handleFunc[curI] it first does curI--
HandlerReturn(t) ==
    /\ ~Idle(t)
    /\ Top(t).k = "handler" /\ Top(t).pc \in {"wait_next", "wait_mw"}
    /\ LET f == Top(t)
       IN stack' = [stack EXCEPT ![t] =
                      IF f.pc = "wait_mw"
                      THEN SubSeq([stack[t] EXCEPT ![f.act].curI = Restore(@)],
                                  1, Depth(t) - 1)
                      ELSE Pop(t)]
    /\ ret' = [ret EXCEPT ![t] = IF Top(t).pc = "wait_mw" THEN HandlerResult(@) ELSE @]
    /\ UNCHANGED <<transitions, heap, mw, mu, trace, op>>

---------------------------------------------------------------------------
(* Specification: one thread calls the public functions one after another *)

Step(t) ==
    \/ \E o \in ObjIds, data \in DataVals : CallTransitionCan(t, o, data)
    \/ \E data \in DataVals, transit \in Names : CallGet(t, data, transit)
    \/ \E data \in DataVals, transit \in Names : CallCan(t, data, transit)
    \/ \E name \in Names, arg \in AddArgs : CallAddNew(t, name, arg[1], arg[2], arg[3])
    \/ \E name \in Names, o \in ObjIds, n \in 0..MaxExtra : CallAddAgain(t, name, o, n)
    \/ AddLock(t)
    \/ AddStore(t)
    \/ AddReturn(t)
    \/ \E data \in DataVals, transit \in Names : CallApply(t, data, transit)
    \/ ApplyReturn(t)
    \/ LookupStart(t)
    \/ LookupReturn(t)
    \/ \E ok \in BOOLEAN : ApplyFunc(t, ok)
    \/ \E kind \in Kinds : MwStart(t, kind)
    \/ MwReturn(t)
    \/ IdentityStart(t)
    \/ IdentityReturn(t)
    \/ ChainStart(t)
    \/ ChainReturn(t)
    \/ HandlerStart(t)
    \/ HandlerReturn(t)

Next == Step(1)

Spec == Init /\ [][Next]_vars

---------------------------------------------------------------------------
(* Specification: one thread, middleware that hand other data to next *)

\* toNew under "a"; toDone, guarded by new, under "b" with its own middleware
\* and every number of extra middleware
AddArgsData(name) ==
    IF name = "a" THEN {<< << <<>>, "new" >>, FALSE, 0 >>}
    ELSE {<<Guarded, TRUE, n>> : n \in 0..MaxExtra}

\* the steps inside a call that the specifications share
Inner(t) ==
    \/ AddLock(t)
    \/ AddStore(t)
    \/ AddReturn(t)
    \/ ApplyReturn(t)
    \/ LookupStart(t)
    \/ LookupReturn(t)
    \/ MwReturn(t)
    \/ IdentityStart(t)
    \/ IdentityReturn(t)
    \/ ChainStart(t)
    \/ ChainReturn(t)
    \/ HandlerStart(t)
    \/ HandlerReturn(t)

StepData(t) ==
    \/ \E name \in Names : \E arg \in AddArgsData(name) :
           CallAddNew(t, name, arg[1], arg[2], arg[3])
    \/ \E data \in DataVals, transit \in Names : CallApply(t, data, transit)
    \/ \E ok \in BOOLEAN : ApplyFunc(t, ok)
    \/ \E kind \in Kinds : MwStart(t, kind)
    \/ MwStartSet(t)
    \/ Inner(t)

NextData == StepData(1)

SpecData == Init /\ [][NextData]_vars

---------------------------------------------------------------------------
(* Specification: one thread, middleware that call next twice *)

StepTwice(t) ==
    \/ \E name \in Names : \E arg \in AddArgsData(name) :
           CallAddNew(t, name, arg[1], arg[2], arg[3])
    \/ \E data \in DataVals, transit \in Names : CallApply(t, data, transit)
    \/ \E ok \in BOOLEAN : ApplyFunc(t, ok)
    \/ MwStart(t, "pass")
    \/ MwStartTwice(t)
    \/ MwAgain(t)
    \/ Inner(t)

NextTwice == StepTwice(1)

SpecTwice == Init /\ [][NextTwice]_vars

---------------------------------------------------------------------------
(* Specification: two threads call Add on one Workflow *)

\* two Transition literals: toDone, bare, and toNew with its own middleware
\* and one extra middleware
AddArgsFew ==
    {<<Guarded, FALSE, 0>>, << << <<>>, "new" >>, TRUE, 1 >>}

StepAdd(t) ==
    \/ \E name \in Names, arg \in AddArgsFew : CallAddNew(t, name, arg[1], arg[2], arg[3])
    \/ \E name \in Names, o \in ObjIds : CallAddAgain(t, name, o, 0)
    \/ AddLock(t)
    \/ AddStore(t)
    \/ AddReturn(t)

NextAdd == \E t \in Threads : StepAdd(t)

SpecAdd == Init /\ [][NextAdd]_vars

---------------------------------------------------------------------------
(* Specification: two threads call Add, Can and Apply on one Workflow *)

\* another thread is at the store of an Add that will write the map
Writing(t) ==
    \E u \in Threads \ {t} :
        /\ ~Idle(u)
        /\ Top(u).k = "Add" /\ Top(u).pc = "store"
        /\ ~IsDuplicate(transitions, Top(u).name)

\* the frame every thread is left with when the runtime stops the program
Fatal == [BlankFrame EXCEPT !.k = "fatal", !.pc = "stopped"]

\* Get, called by Can or reached in Apply, reads w.transitions while another
\* thread writes it: a data race.  The read may see the map as it was or as it
\* will be (LookupStart, CallCan before or after AddStore), or the runtime
\* detects the concurrent map read and map write and stops the program.
RacedRead(t) ==
    /\ \/ Idle(t)
       \/ ~Idle(t) /\ Top(t).k = "lookup" /\ Top(t).pc = "start"
    /\ Writing(t)
    /\ stack' = [u \in Threads |-> <<Fatal>>]
    /\ UNCHANGED <<transitions, heap, mw, mu, ret, trace, op>>

\* toNew, bare, under "a"; toDone under "b" with its own middleware and the
\* most extra middleware
AddArgsConc(name) ==
    IF name = "a" THEN << << <<>>, "new" >>, FALSE, 0 >>
    ELSE <<Guarded, TRUE, MaxExtra>>

StepConc(t) ==
    \/ \E name \in Names :
           CallAddNew(t, name, AddArgsConc(name)[1], AddArgsConc(name)[2],
                      AddArgsConc(name)[3])
    \/ \E transit \in Names : CallCan(t, MkData("new"), transit)
    \/ \E transit \in Names : CallApply(t, MkData("new"), transit)
    \/ ApplyFunc(t, TRUE)
    \/ MwStart(t, "pass")
    \/ RacedRead(t)
    \/ Inner(t)

NextConc == \E t \in Threads : StepConc(t)

SpecConc == Init /\ [][NextConc]_vars

---------------------------------------------------------------------------
(* Properties *)

\* thread t has finished a call of the public function f and made no call since
Finished(t, f) == Idle(t) /\ op[t].f = f

\* state s is one of the elements of src
Admits(src, s) == \E i \in DOMAIN src : src[i] = s

\* the registry has an entry for name and its transition is reachable from s
Reachable(name, s) ==
    /\ transitions[name] # NoObj
    /\ LET src == heap[transitions[name]].Src
       IN src = <<>> \/ Admits(src, s)

\* thread t takes the step of Add that checks and stores, and the name is taken
RejectingAdd(t) ==
    /\ ~Idle(t)
    /\ Top(t).k = "Add" /\ Top(t).pc \in {"lock", "store"}
    /\ transitions[Top(t).name] # NoObj

\* C1: a step of an Add call whose name is already registered leaves the
\* registry, every Transition object (the registered one and the rejected
\* argument) and the global chain as they were, and the call returns
\* ErrDuplicateTransit.
C1_DuplicateAddChangesNothing ==
    [][\A t \in Threads :
          (RejectingAdd(t) /\ stack'[t] # stack[t]) =>
             /\ transitions' = transitions
             /\ heap' = heap
             /\ mw' = mw
             /\ Top(t).pc = "store" => ret'[t].err = ErrDuplicateTransit]_vars

\* C1 witness: an Add was rejected whose argument has another destination
\* than the registered transition
C1_Witness ==
    \E t \in Threads :
        /\ ~Idle(t)
        /\ Top(t).k = "Add" /\ Top(t).pc = "unlock"
        /\ ret[t].err = ErrDuplicateTransit
        /\ transitions[Top(t).name] # Top(t).tr
        /\ heap[transitions[Top(t).name]].Dst # heap[Top(t).tr].Dst

\* C2 as stated: for an unregistered name Can is false and Apply returns
\* (nil, ErrTransitNotAllowed), whatever the global middleware does.
C2_AsStated ==
    \A t \in Threads :
        /\ (Finished(t, "Can") /\ transitions[op[t].name] = NoObj) => ~ret[t].ok
        /\ (Finished(t, "Apply") /\ transitions[op[t].name] = NoObj) =>
              (ret[t].data = NilData /\ ret[t].err = ErrTransitNotAllowed)

\* some middleware returned without calling its continuation
Aborted(t) == \E i \in DOMAIN trace[t] : trace[t][i].e = "abort"

\* C2 amended: for an unregistered name Can is false; Apply returns
\* (nil, ErrTransitNotAllowed) when every global middleware called its
\* continuation and returned its result, and otherwise returns what the global
\* middleware that did not call its continuation returned.
C2_UnregisteredNotAllowed ==
    \A t \in Threads :
        /\ (Finished(t, "Can") /\ transitions[op[t].name] = NoObj) => ~ret[t].ok
        /\ (Finished(t, "Apply") /\ transitions[op[t].name] = NoObj) =>
              IF Aborted(t)
              THEN \E i \in DOMAIN trace[t] :
                      /\ trace[t][i].e = "abort"
                      /\ trace[t][i].id.o = 0
                      /\ ret[t].data = NilData
                      /\ ret[t].err = ErrMw(trace[t][i].id)
              ELSE ret[t].data = NilData /\ ret[t].err = ErrTransitNotAllowed

\* C2 witness: Apply of an unregistered name went through two global
\* middleware and returned
C2_Witness ==
    \E t \in Threads :
        /\ Finished(t, "Apply")
        /\ transitions[op[t].name] = NoObj
        /\ ~Aborted(t)
        /\ Len(trace[t]) >= 5
        /\ op[t].data.state = "new"

\* C3: tr.Can(data) is true when Src is empty, and otherwise true exactly when
\* the state of data is one of the elements of Src.
C3_TransitionCan ==
    \A t \in Threads :
        Finished(t, "TransitionCan") =>
            LET src == heap[op[t].tr].Src
                s == GetState(op[t].data)
            IN /\ src = <<>> => ret[t].ok
               /\ src # <<>> => (ret[t].ok <=> Admits(src, s))

\* C3 witness: Can found the state as the second element of Src
C3_Witness ==
    \E t \in Threads :
        /\ Finished(t, "TransitionCan")
        /\ Len(heap[op[t].tr].Src) = 2
        /\ GetState(op[t].data) = heap[op[t].tr].Src[2]
        /\ ret[t].ok

\* C4: w.Can(data, name) is true exactly when name is registered and its
\* transition is reachable from the state of data; w.Get returns that
\* transition then, and nil both for an unregistered name and for a rejection.
C4_WorkflowCan ==
    \A t \in Threads :
        /\ Finished(t, "Can") =>
              (ret[t].ok <=> Reachable(op[t].name, GetState(op[t].data)))
        /\ Finished(t, "Get") =>
              ret[t].tr = IF Reachable(op[t].name, GetState(op[t].data))
                          THEN transitions[op[t].name] ELSE NoObj

\* C4 witness: Can answered false for a registered name whose guard rejects
C4_Witness ==
    \E t \in Threads :
        /\ Finished(t, "Can")
        /\ transitions[op[t].name] # NoObj
        /\ ~ret[t].ok

---------------------------------------------------------------------------
(* Properties of the chains *)

\* the caller-supplied middleware of a Middleware value, outermost first, as
\* the nesting m0(.., m1(.., ... terminal)) orders them
RECURSIVE Flat(_), FlatFrom(_, _)
Flat(m) ==
    IF m.k = "base" THEN <<m.id>>
    ELSE IF m.k = "chain" THEN FlatFrom(m.hs, 1)
    ELSE <<>>
FlatFrom(hs, i) ==
    IF i > Len(hs) THEN <<>> ELSE Flat(hs[i]) \o FlatFrom(hs, i + 1)

Ids(events) == [i \in DOMAIN events |-> events[i].id]
IsGlobalEnter(ev) == ev.e = "enter" /\ ev.id.o = 0
IsLocalEnter(ev) == ev.e = "enter" /\ ev.id.o # 0
GlobalEnters(t) == Ids(SelectSeq(trace[t], IsGlobalEnter))
LocalEnters(t) == Ids(SelectSeq(trace[t], IsLocalEnter))
Pos(t, kinds) == {i \in DOMAIN trace[t] : trace[t][i].e \in kinds}
Found(t) == Pos(t, {"get"}) # {}

\* the chain of the transition registered under the name of t's Apply
LocalChain(t) == Flat(heap[transitions[op[t].name]].Middleware)

\* in t's trace every event of kinds a comes before every event of kinds b
Before(t, a, b) == \A i \in Pos(t, a), j \in Pos(t, b) : i < j

\* C5: when every middleware of a composed chain calls its continuation once,
\* one call of the chain enters its middleware in the order of composition,
\* each once, and then calls the terminal once, after the last middleware was
\* entered and before any middleware returns.  The global chain ends in the
\* lookup, the chain of a transition in the apply function.
C5_ChainOrder ==
    \A t \in Threads :
        (Finished(t, "Apply") /\ ~Aborted(t)) =>
            /\ GlobalEnters(t) = Flat(mw)
            /\ Cardinality(Pos(t, {"get", "deny"})) = 1
            /\ \A i \in Pos(t, {"get", "deny"}) :
                  /\ \A j \in DOMAIN trace[t] : IsGlobalEnter(trace[t][j]) => j < i
                  /\ \A j \in Pos(t, {"leave"}) : i < j
            /\ Found(t) =>
                  /\ LocalEnters(t) = LocalChain(t)
                  /\ Cardinality(Pos(t, {"apply"})) = 1
                  /\ Before(t, {"enter"}, {"apply"})
                  /\ Before(t, {"apply"}, {"leave"})

\* C5 witness: a chain of three middleware ran and the apply function after it
C5_Witness ==
    \E t \in Threads :
        /\ Finished(t, "Apply") /\ ~Aborted(t)
        /\ Len(LocalEnters(t)) = 3
        /\ Pos(t, {"apply"}) # {}

\* C6: when a middleware returns without calling its continuation, the
\* middleware entered are those before it in the order of composition and
\* itself, nothing is called after it (no later middleware, no lookup for a
\* global middleware, no apply function), and what it returned is the result
\* of the chain and of Apply.
C6_ShortCircuit ==
    \A t \in Threads :
        Finished(t, "Apply") =>
            \A p \in Pos(t, {"abort"}) :
                LET x == trace[t][p].id
                    g == GlobalEnters(t)
                    l == LocalEnters(t)
                IN /\ \A i \in DOMAIN trace[t] : i > p => trace[t][i].e = "leave"
                   /\ Pos(t, {"apply"}) = {}
                   /\ IF x.o = 0
                      THEN /\ g = SubSeq(Flat(mw), 1, Len(g))
                           /\ g[Len(g)] = x
                           /\ l = <<>>
                           /\ Pos(t, {"get", "deny"}) = {}
                      ELSE /\ g = Flat(mw)
                           /\ l = SubSeq(LocalChain(t), 1, Len(l))
                           /\ l[Len(l)] = x
                   /\ ret[t].data = NilData
                   /\ ret[t].err = ErrMw(x)

\* C6 witness: the second of three middleware of a chain returned at once
C6_Witness ==
    \E t \in Threads :
        /\ Finished(t, "Apply")
        /\ Len(LocalEnters(t)) = 2
        /\ Len(LocalChain(t)) = 3
        /\ \E p \in Pos(t, {"abort"}) : trace[t][p].id = LocalChain(t)[2]

\* C7 as stated: Apply(name) runs the extra middleware of the Add call that
\* registered name, in call order, then the Middleware the transition had, then
\* at once the apply function, and no middleware registered for another name.
C7_AsStated ==
    \A t \in Threads :
        (Finished(t, "Apply") /\ ~Aborted(t) /\ Found(t)) =>
            LET o == transitions[op[t].name]
                l == LocalEnters(t)
            IN /\ \E n \in 0..MaxExtra, own \in BOOLEAN :
                     l = [j \in 1..n |-> ExtraId(o, op[t].name, j)]
                           \o (IF own THEN <<OwnId(o)>> ELSE <<>>)
               /\ \A i \in Pos(t, {"apply"}) :
                     /\ trace[t][i - 1].e \in {"enter", "get"}
                     /\ l # <<>> => trace[t][i - 1].id = l[Len(l)]

\* C8: a lookup rejects exactly when the name is unregistered or the guard
\* rejects the state of the data; after a rejection no middleware of a
\* transition and no apply function was called in that Apply, and the result is
\* (nil, ErrTransitNotAllowed).
C8_RejectedLookup ==
    \A t \in Threads :
        op[t].f = "Apply" =>
            /\ \A i \in Pos(t, {"deny"}) :
                  ~Reachable(trace[t][i].a, trace[t][i].st)
            /\ \A i \in Pos(t, {"get"}) :
                  Reachable(trace[t][i].a, trace[t][i].st)
            /\ Pos(t, {"deny"}) # {} =>
                  /\ LocalEnters(t) = <<>>
                  /\ Pos(t, {"apply"}) = {}
                  /\ ret[t].data = NilData
                  /\ ret[t].err = ErrTransitNotAllowed

\* C8 witness: the guard of a registered transition with three middleware
\* rejected the data and Apply returned
C8_Witness ==
    \E t \in Threads :
        /\ Finished(t, "Apply")
        /\ Pos(t, {"deny"}) # {}
        /\ transitions[op[t].name] # NoObj
        /\ Len(LocalChain(t)) = 3

\* the calls of a trace without the returns: kind, middleware and argument
Calls(t) ==
    LET IsCall(ev) == ev.e \in {"enter", "get", "deny", "apply"}
        c == SelectSeq(trace[t], IsCall)
    IN [i \in DOMAIN c |-> <<c[i].e, c[i].id, c[i].a>>]

\* C9: when every middleware calls its continuation and the guard admits the
\* data, Apply calls the global middleware in the order given to NewWorkflow,
\* then the lookup, then the chain of the named transition in its order, then
\* the apply function once, with the Dst of the transition registered.
C9_ApplyOrder ==
    \A t \in Threads :
        (Finished(t, "Apply") /\ ~Aborted(t) /\ Found(t)) =>
            LET g == Len(Flat(mw))
                l == LocalChain(t)
                tr == heap[transitions[op[t].name]]
            IN Calls(t) =
                  [j \in 1..g |-> <<"enter", GlobalId(j), "">>]
                    \o << <<"get", NoId, op[t].name>> >>
                    \o [j \in 1..Len(l) |-> <<"enter", l[j], "">>]
                    \o << <<"apply", NoId, tr.Dst>> >>

\* C9 witness: two global middleware, two of the transition, then apply
C9_Witness ==
    \E t \in Threads :
        /\ Finished(t, "Apply") /\ ~Aborted(t)
        /\ Len(GlobalEnters(t)) = 2
        /\ Len(LocalEnters(t)) = 2
        /\ Pos(t, {"apply"}) # {}

\* C10: from the moment a middleware or the apply function returns an error,
\* that error is the result at every layer up to the caller of Apply, and
\* nothing more is called: the events after it are returns only, and there is
\* no second error.
C10_ErrorPropagates ==
    \A t \in Threads :
        op[t].f = "Apply" =>
            \A p \in Pos(t, {"abort", "applyerr"}) :
                /\ ret[t].err = IF trace[t][p].e = "abort" THEN ErrMw(trace[t][p].id)
                                ELSE ErrApply
                /\ ret[t].data = NilData
                /\ \A i \in DOMAIN trace[t] : i > p => trace[t][i].e = "leave"

\* C10 witness: the apply function failed under two global and three
\* transition middleware and Apply returned its error
C10_Witness ==
    \E t \in Threads :
        /\ Finished(t, "Apply")
        /\ Pos(t, {"applyerr"}) # {}
        /\ Len(GlobalEnters(t)) = 2
        /\ Len(LocalEnters(t)) = 3
        /\ ret[t].err = ErrApply

---------------------------------------------------------------------------
(* Properties of the registry and of the stored chains *)

\* C13 as stated: once a name is registered, no step changes the middleware
\* that Apply runs for it: the chain of its transition stays what it was.
C13_AsStated ==
    [][\A name \in Names :
          transitions[name] # NoObj =>
             /\ transitions'[name] # NoObj
             /\ Flat(heap'[transitions'[name]].Middleware)
                  = Flat(heap[transitions[name]].Middleware)]_vars

\* t's step is the store of an Add that succeeds
StoringAdd(t) ==
    /\ ~Idle(t)
    /\ Top(t).k = "Add" /\ Top(t).pc = "store"
    /\ transitions[Top(t).name] = NoObj

\* C15: a registered name keeps the Transition object of its first successful
\* Add for ever; the registry changes only in the store of a successful Add,
\* which adds its name with its Transition object and returns nil; every step
\* of Get, Can, Apply and of a rejected Add leaves the registry as it was.
C15_RegistryGrows ==
    [][/\ \A name \in Names :
             transitions[name] # NoObj => transitions'[name] = transitions[name]
       /\ transitions' # transitions =>
             \E t \in Threads :
                 /\ StoringAdd(t)
                 /\ transitions' = [transitions EXCEPT ![Top(t).name] = Top(t).tr]
                 /\ ret'[t].err = NoErr
       /\ \A t \in Threads :
             (stack'[t] # stack[t] /\ ~StoringAdd(t)) => transitions' = transitions]_vars

\* C15 witness: with both names registered, for two Transition objects, a
\* rejected Add and an Apply have returned
C15_Witness ==
    /\ \A name \in Names : transitions[name] # NoObj
    /\ transitions["a"] # transitions["b"]
    /\ \E t \in Threads :
          \/ Finished(t, "Apply") /\ Found(t)
          \/ Finished(t, "Add") /\ ret[t].err = ErrDuplicateTransit

\* a Middleware value that can be called: not nil, and a chain of such values
RECURSIVE Callable(_), CallableFrom(_, _)
Callable(m) ==
    IF m.k = "chain" THEN CallableFrom(m.hs, 1) ELSE m.k \in {"base", "identity"}
CallableFrom(hs, i) ==
    IF i > Len(hs) THEN TRUE ELSE Callable(hs[i]) /\ CallableFrom(hs, i + 1)

\* C19: the global chain and the Middleware of every registered transition
\* are callable, and are the pass-through when they hold no middleware of the
\* caller; no call in progress is a call of nil.
C19_ChainsCallable ==
    /\ Callable(mw)
    /\ Flat(mw) = <<>> => mw.k = "identity"
    /\ \A name \in Names :
          transitions[name] # NoObj =>
             LET m == heap[transitions[name]].Middleware
             IN /\ Callable(m)
                /\ Flat(m) = <<>> => m.k = "identity"
    /\ \A t \in Threads : \A i \in DOMAIN stack[t] : stack[t][i].k # "nil"

\* C19 witness: an Apply succeeded with no global middleware on a transition
\* added without middleware: lookup, then at once the apply function
C19_Witness ==
    \E t \in Threads :
        /\ Finished(t, "Apply") /\ ret[t].err = NoErr
        /\ Flat(mw) = <<>> /\ LocalChain(t) = <<>>
        /\ Len(trace[t]) = 2
        /\ trace[t][1].e = "get" /\ trace[t][2].e = "apply"
        /\ ret[t].data = MkData(heap[transitions[op[t].name]].Dst)

---------------------------------------------------------------------------
(* Properties of the data handed along a chain *)

\* the events of a call made with data (a middleware, the lookup, the apply
\* function), and the events that tell which data the next call is made with
Received == {"enter", "get", "deny", "apply"}
Handed == {"enter", "set", "get", "again"}

\* the state of the data handed to the call of event i of t's trace: that of
\* the nearest event before it that hands data on, or of the data given to Apply
HandedTo(t, i) ==
    LET before == {j \in Pos(t, Handed) : j < i}
    IN IF before = {} THEN GetState(op[t].data)
       ELSE trace[t][CHOOSE j \in before : \A k \in before : k <= j].st

\* C14 as stated: every middleware, the lookup and the apply function receive
\* the data the link before them handed to its continuation, for chains of
\* every length.
C14_AsStated ==
    \A t \in Threads :
        \A i \in Pos(t, Received) : trace[t][i].st = HandedTo(t, i)

---------------------------------------------------------------------------
(* Properties of the entity's state *)

\* some global middleware of t's Apply handed other data to its continuation
GlobalSet(t) == \E i \in Pos(t, {"set"}) : trace[t][i].id.o = 0

\* C11 as stated: an Apply that succeeds returns the entity in the Dst of the
\* registered transition of that name, whose guard admitted the state the
\* entity had before the call; a rejected Apply returns (nil,
\* ErrTransitNotAllowed).
C11_AsStated ==
    \A t \in Threads :
        Finished(t, "Apply") =>
            /\ ret[t].err = NoErr =>
                  /\ Reachable(op[t].name, GetState(op[t].data))
                  /\ ret[t].data = MkData(heap[transitions[op[t].name]].Dst)
            /\ Pos(t, {"deny"}) # {} =>
                  (ret[t].data = NilData /\ ret[t].err = ErrTransitNotAllowed)

\* C11 amended: an Apply that succeeds returns the entity in the Dst of the
\* registered transition of that name, whose guard admitted the state of the
\* data the lookup received: the state the entity had before the call when no
\* global middleware handed other data to its continuation.  An Apply that
\* fails returns nil data, and (nil, ErrTransitNotAllowed) when the lookup
\* rejected; no step of an Apply changes the entity it was called with.
C11_StateFollowsTransitions ==
    \A t \in Threads :
        /\ Finished(t, "Apply") =>
            /\ ret[t].err = NoErr =>
                  /\ Found(t)
                  /\ \A i \in Pos(t, {"get"}) :
                        Reachable(op[t].name, trace[t][i].st)
                  /\ ~GlobalSet(t) => Reachable(op[t].name, GetState(op[t].data))
                  /\ ret[t].data = MkData(heap[transitions[op[t].name]].Dst)
            /\ ret[t].err # NoErr => ret[t].data = NilData
            /\ Pos(t, {"deny"}) # {} =>
                  (ret[t].data = NilData /\ ret[t].err = ErrTransitNotAllowed)
        /\ (op[t].f = "Apply" /\ ~Idle(t)) => stack[t][1].data = op[t].data

\* C11 witness: toDone, guarded by new, was applied to an entity in state new
\* that no middleware replaced, and returned it in state done
C11_Witness ==
    \E t \in Threads :
        /\ Finished(t, "Apply") /\ ret[t].err = NoErr
        /\ heap[transitions[op[t].name]].Src = <<"new">>
        /\ op[t].data = MkData("new")
        /\ Pos(t, {"set"}) = {}
        /\ ret[t].data = MkData("done")
        /\ transitions["a"] # NoObj

---------------------------------------------------------------------------
(* Properties of repeated calls of a continuation *)

\* the place of id in the sequence ids
IndexOf(ids, id) == CHOOSE i \in DOMAIN ids : ids[i] = id

\* ev is the call that follows x in the chain ids, whose terminal is called
\* with an event of one of the kinds last
FollowsIn(ids, x, ev, last) ==
    IF IndexOf(ids, x) < Len(ids)
    THEN ev.e = "enter" /\ ev.id = ids[IndexOf(ids, x) + 1]
    ELSE ev.e \in last

\* ev is the call that the call of event p of t's trace makes when it calls
\* its continuation, as the nesting m0(.., m1(.., ... terminal)) has it
NextLink(t, p, ev) ==
    LET x == trace[t][p]
        L == LocalChain(t)
    IN IF x.e = "get"
       THEN IF L = <<>> THEN ev.e = "apply" ELSE ev.e = "enter" /\ ev.id = L[1]
       ELSE IF x.id.o = 0 THEN FollowsIn(Flat(mw), x.id, ev, {"get", "deny"})
       ELSE FollowsIn(L, x.id, ev, {"apply"})

\* C17: every call a middleware makes of its continuation, the first and each
\* later one, calls the next middleware of its chain, and the terminal after
\* the last: the lookup after the global chain, the apply function after the
\* chain of the transition.
C17_CursorRestored ==
    \A t \in Threads :
        \A p \in Pos(t, {"enter", "again", "get"}) :
            (p < Len(trace[t]) /\ trace[t][p + 1].e # "abort") =>
                NextLink(t, p, trace[t][p + 1])

\* the number of events of t's trace of kind e made by id
Count(t, e, id) ==
    Cardinality({i \in DOMAIN trace[t] : trace[t][i].e = e /\ trace[t][i].id = id})

\* C17 witness: in composed chains of two or more, the first global middleware
\* and the first middleware of the transition each called their continuation
\* twice, and the Apply has returned: the second global middleware ran twice and
\* the apply function three times
C17_Witness ==
    \E t \in Threads :
        /\ Finished(t, "Apply") /\ Found(t)
        /\ Len(Flat(mw)) >= 2 /\ Len(LocalChain(t)) >= 2
        /\ Count(t, "again", Flat(mw)[1]) = 1
        /\ Count(t, "again", LocalChain(t)[1]) = 1
        /\ Count(t, "enter", Flat(mw)[2]) = 2
        /\ Count(t, "apply", NoId) = 3

---------------------------------------------------------------------------
(* Properties of concurrent calls *)

\* t is in Add between Lock and Unlock: at the check and store, or past it
InSection(t) == ~Idle(t) /\ Top(t).k = "Add" /\ Top(t).pc \in {"store", "unlock"}

\* t's Add has passed its check: its result is decided
Decided(t) == op[t].f = "Add" /\ (Idle(t) \/ Top(t).pc = "unlock")

\* C12: at most one thread is between Lock and Unlock of Add, and it holds the
\* mutex; of two Adds of one name not both return nil; an Add that returned nil
\* has its Transition stored under its name and one that returned
\* ErrDuplicateTransit found the name stored; the store of an Add whose name is
\* not yet registered returns nil and registers its Transition.
C12_AddsSerialize ==
    /\ [](\A t \in Threads :
            /\ InSection(t) => mu = t
            /\ \A u \in Threads \ {t} :
                  /\ ~(InSection(t) /\ InSection(u))
                  /\ (Decided(t) /\ Decided(u) /\ op[t].name = op[u].name) =>
                        ~(ret[t].err = NoErr /\ ret[u].err = NoErr)
            /\ Decided(t) =>
                  /\ ret[t].err \in {NoErr, ErrDuplicateTransit}
                  /\ ret[t].err = NoErr => transitions[op[t].name] = op[t].tr
                  /\ ret[t].err = ErrDuplicateTransit => transitions[op[t].name] # NoObj)
    /\ [][\A t \in Threads :
            (StoringAdd(t) /\ stack'[t] # stack[t]) =>
                /\ ret'[t].err = NoErr
                /\ transitions'[Top(t).name] = Top(t).tr]_vars

\* C12 witness: two Adds of one name with two Transition objects are in
\* progress together: one has stored its Transition and still holds the mutex,
\* the other waits at Lock
C12_Witness ==
    \E t \in Threads, u \in Threads :
        /\ InSection(t) /\ Top(t).pc = "unlock" /\ ret[t].err = NoErr
        /\ ~Idle(u) /\ Top(u).k = "Add" /\ Top(u).pc = "lock"
        /\ Top(t).name = Top(u).name /\ Top(t).tr # Top(u).tr
        /\ transitions[Top(t).name] = Top(t).tr

\* t's Apply is about to look its transition up in the registry
LookupPending(t) == ~Idle(t) /\ Top(t).k = "lookup" /\ Top(t).pc = "start"

\* t's public call of f has begun and has not returned
InCall(t, f) == op[t].f = f /\ ~op[t].done

\* C16: a lookup never waits for the mutex: Can can be called and the lookup of
\* an Apply can read the registry in every state, also while another thread is
\* between Lock and Unlock of Add.  That happens only while an Add of one
\* thread and an Apply of another are in progress together, and only then does
\* the runtime stop the program for a concurrent map read and map write; so it
\* never happens when every Add has returned before the first lookup begins.
C16_LookupTakesNoLock ==
    \A t \in Threads :
        /\ LookupPending(t) => ENABLED LookupStart(t)
        /\ Idle(t) => \A transit \in Names : ENABLED CallCan(t, MkData("new"), transit)
        /\ (LookupPending(t) /\ mu # 0) =>
              /\ mu # t
              /\ InSection(mu)
              /\ InCall(mu, "Add") /\ InCall(t, "Apply")
        /\ (~Idle(t) /\ Top(t).k = "fatal") => \E u \in Threads : InCall(u, "Add")

\* C16 witness: one thread is in Add, holds the mutex and is about to write
\* the map, while the Apply of the other is about to read it
C16_Witness ==
    \E t \in Threads :
        /\ LookupPending(t)
        /\ mu \in Threads \ {t}
        /\ Writing(t)

\* a is a prefix of b
IsPrefix(a, b) == Len(a) <= Len(b) /\ a = SubSeq(b, 1, Len(a))

\* the calls of t's Apply when every middleware calls its continuation: the
\* global middleware and, when the name is registered, the lookup, the chain of
\* its transition and the apply function with its Dst
ExpectedCalls(t) ==
    [j \in 1..Len(Flat(mw)) |-> <<"enter", GlobalId(j), "">>]
      \o (IF transitions[op[t].name] = NoObj THEN <<>>
          ELSE << <<"get", NoId, op[t].name>> >>
                 \o [j \in 1..Len(LocalChain(t)) |-> <<"enter", LocalChain(t)[j], "">>]
                 \o << <<"apply", NoId, heap[transitions[op[t].name]].Dst>> >>)

\* C18: whatever the other thread does, the calls an Apply has made so far are
\* the first of its own chain in order, each once, and when it returns it has
\* called them all and then the apply function with the Dst of its own
\* transition; the cursor of every chain call in progress counts the
\* handlers of that call that have not returned.
C18_ApplyCursorsApart ==
    \A t \in Threads :
        /\ (op[t].f = "Apply" /\ Pos(t, {"deny"}) = {}) =>
              /\ IsPrefix(Calls(t), ExpectedCalls(t))
              /\ Finished(t, "Apply") =>
                    /\ Calls(t) = ExpectedCalls(t)
                    /\ ret[t].err = NoErr
                    /\ ret[t].data = MkData(heap[transitions[op[t].name]].Dst)
        /\ \A i \in DOMAIN stack[t] :
              stack[t][i].k = "chain" =>
                  stack[t][i].curI =
                      Cardinality({j \in DOMAIN stack[t] :
                                      /\ stack[t][j].k = "handler"
                                      /\ stack[t][j].act = i
                                      /\ stack[t][j].pc = "wait_mw"})

\* C18 witness: with both names registered, two Applies of two names are in
\* progress together, each in the composed global chain, at two positions
C18_Witness ==
    \E t \in Threads, u \in Threads :
        /\ \A name \in Names : transitions[name] # NoObj
        /\ InCall(t, "Apply") /\ InCall(u, "Apply")
        /\ op[t].name # op[u].name
        /\ Depth(t) > 2 /\ Depth(u) > 2
        /\ stack[t][2].k = "chain" /\ stack[u][2].k = "chain"
        /\ stack[t][2].curI = 1 /\ stack[u][2].curI = 0
        /\ Pos(u, {"enter"}) # {}

====
